---- MODULE Spec2Model ----
(***************************************************************************)
(* Model of the blog application: the Article model (slug generation and  *)
(* status promotion in Article.save, is_published), the article editor,   *)
(* autosave, write and delete request handlers, image reconciliation,     *)
(* ArticleForm validation, search, the article detail page and topics.    *)
(***************************************************************************)
EXTENDS Integers, Sequences, FiniteSets, TLC

(* ------------------------------ bounds -------------------------------- *)
MaxArticles == 3
MaxSlugArticles == 2
MaxImages == 3
MaxTime == 2
TicksPerDay == 2
MaxSearchArticles == 7
MaxAlike == 2
MaxTopics == 2

(* ------------------------------ values -------------------------------- *)
\* Status choices of Article.Status
DRAFT == "DR"
SCHEDULED == "SC"
PUBLISHED == "PU"
Status == {DRAFT, SCHEDULED, PUBLISHED}

\* A nullable timestamp is <<>> (None) or <<t>>.
Null == <<>>
At(t) == <<t>>
TimeOf(p) == p[1]

\* The calendar day of a timestamp (datetime.date()).
Date(t) == t \div TicksPerDay

(* ------------------------------ strings ------------------------------- *)
\* Strings are sequences of one-character strings.
Digits == <<"0", "1", "2", "3", "4", "5", "6", "7", "8", "9">>
DigitSet == {Digits[i] : i \in 1..10}
DigitVal(c) == (CHOOSE i \in 1..10 : Digits[i] = c) - 1

RECURSIVE IntToStr(_)
IntToStr(n) ==
    IF n < 10 THEN <<Digits[n + 1]>>
    ELSE IntToStr(n \div 10) \o <<Digits[(n % 10) + 1]>>

Lower(c) == IF c = "A" THEN "a" ELSE IF c = "B" THEN "b" ELSE c
IsWordChar(c) == c \in {"a", "b", "_"} \cup DigitSet
IsSepChar(c) == c \in {" ", "-"}

LowerStr(s) == [i \in 1..Len(s) |-> Lower(s[i])]
KeepSlugChars(s) == SelectSeq(s, LAMBDA c : IsWordChar(c) \/ IsSepChar(c))

RECURSIVE CollapseSeps(_)
CollapseSeps(s) ==
    IF s = <<>> THEN <<>>
    ELSE IF IsSepChar(Head(s))
         THEN IF Len(s) > 1 /\ IsSepChar(s[2])
              THEN CollapseSeps(Tail(s))
              ELSE <<"-">> \o CollapseSeps(Tail(s))
         ELSE <<Head(s)>> \o CollapseSeps(Tail(s))

RECURSIVE StripLeft(_, _)
StripLeft(s, cs) ==
    IF s # <<>> /\ Head(s) \in cs THEN StripLeft(Tail(s), cs) ELSE s

RECURSIVE StripRight(_, _)
StripRight(s, cs) ==
    IF s # <<>> /\ s[Len(s)] \in cs
    THEN StripRight(SubSeq(s, 1, Len(s) - 1), cs) ELSE s

Strip(s, cs) == StripRight(StripLeft(s, cs), cs)

\* django.utils.text.slugify
slugify(title) ==
    Strip(CollapseSeps(KeepSlugChars(LowerStr(title))), {"-", "_"})

(* --------------------------- slug generation -------------------------- *)
\* The while loop of Article.save: candidates base, base-1, base-2, ...
RECURSIVE SlugLoopStartsAtTwo(_, _, _, _)
SlugLoopStartsAtTwo(base_slug, unique_slug, count, used) ==
    IF unique_slug \in used
    THEN SlugLoopStartsAtTwo(base_slug,
                             base_slug \o <<"-">> \o IntToStr(count + 1),
                             count + 1, used)
    ELSE unique_slug

RECURSIVE SlugLoop(_, _, _, _)
SlugLoop(base_slug, unique_slug, count, used) ==
    IF unique_slug \in used
    THEN SlugLoop(base_slug, base_slug \o <<"-">> \o IntToStr(count),
                  count + 1, used)
    ELSE unique_slug

(* -------------------------------- state ------------------------------- *)
VARIABLES
    articles,     \* Article rows: id -> row
    nextId,       \* next auto-increment Article id
    images,       \* ArticleImage rows: id -> [article |-> Article id]
    nextImageId,  \* next auto-increment ArticleImage id
    files,        \* ids of the ArticleImage rows whose backing file exists
    topics,       \* ids of the stored Topic rows
    nextTopicId,  \* the id the next Topic row gets
    now,          \* timezone.now()
    pending,      \* requests under way: what each holds in memory
    last          \* the last step: its inputs, Article.save calls, outcome

vars == <<articles, nextId, images, nextImageId, files, topics, nextTopicId,
          now, pending, last>>

TagIds == {1}
NoTopic == 0

\* Article(author=...) with the field defaults of the model
BlankArticle ==
    [title |-> <<>>, slug |-> <<>>, status |-> DRAFT, published_at |-> Null,
     content |-> "", excerpt |-> "", topic |-> NoTopic, tags |-> {}]

UsedSlugs(db) == {db[j].slug : j \in DOMAIN db}

(* ------------------------------ Article.save -------------------------- *)
\* if not self.slug: ... self.slug = unique_slug
WithSlugFromTitleAlways(db, mem) ==
    [mem EXCEPT !.slug = SlugLoop(slugify(mem.title), slugify(mem.title), 1,
                                  UsedSlugs(db))]

WithSlug(db, mem) ==
    IF mem.slug = <<>>
    THEN [mem EXCEPT !.slug = SlugLoop(slugify(mem.title), slugify(mem.title), 1,
                                       UsedSlugs(db))]
    ELSE mem

\* if self.status == SCHEDULED and self.published_at:
\*     if timezone.now() >= self.published_at: self.status = PUBLISHED
WithStatusStrictlyAfter(mem, t) ==
    IF mem.status = SCHEDULED /\ mem.published_at # Null
    THEN IF t > TimeOf(mem.published_at)
         THEN [mem EXCEPT !.status = PUBLISHED] ELSE mem
    ELSE mem

WithStatusPromotesDrafts(mem, t) ==
    IF mem.status # PUBLISHED /\ mem.published_at # Null
    THEN IF t >= TimeOf(mem.published_at)
         THEN [mem EXCEPT !.status = PUBLISHED] ELSE mem
    ELSE mem

WithStatus(mem, t) ==
    IF mem.status = SCHEDULED /\ mem.published_at # Null
    THEN IF t >= TimeOf(mem.published_at)
         THEN [mem EXCEPT !.status = PUBLISHED] ELSE mem
    ELSE mem

\* slug = models.SlugField(unique=True): the write is refused when another
\* row holds the slug.
SlugConflictNever(db, id, slug) == FALSE

SlugConflict(db, id, slug) ==
    \E j \in DOMAIN db : j # id /\ db[j].slug = slug

\* super().save(): insert or update the row
DbWrite(db, id, row) ==
    [j \in DOMAIN db \cup {id} |-> IF j = id THEN row ELSE db[j]]

\* Article.save on the in-memory instance mem of row id at time t.
\* ok = FALSE is an IntegrityError: nothing is written.  call is the log
\* entry of the call: the status, published_at and slug the caller passed
\* and the status the call stored.
ArticleSave(db, id, mem, t) ==
    LET row == WithStatus(WithSlug(db, mem), t)
        ok  == ~SlugConflict(db, id, row.slug)
    IN  [ok   |-> ok,
         db   |-> IF ok THEN DbWrite(db, id, row) ELSE db,
         row  |-> row,
         call |-> [id |-> id, ok |-> ok, at |-> t,
                   status |-> mem.status, published_at |-> mem.published_at,
                   slug |-> mem.slug, stored |-> row.status]]

\* Article.is_published: the value of the Python `and` chain
\* (False, None or the comparison), and its truth value.
is_published_value_strict(a, t) ==
    IF a.status # PUBLISHED THEN "False"
    ELSE IF a.published_at = Null THEN "None"
    ELSE IF TimeOf(a.published_at) < t THEN "True" ELSE "False"

is_published_value(a, t) ==
    IF a.status # PUBLISHED THEN "False"
    ELSE IF a.published_at = Null THEN "None"
    ELSE IF TimeOf(a.published_at) <= t THEN "True" ELSE "False"

Truthy(v) == v = "True"

(* ------------------------------ requests ------------------------------ *)
BlankIn == [kind |-> "blank", t |-> 0]
DateIn(t) == [kind |-> "date", t |-> t]
BadIn == [kind |-> "bad", t |-> 0]
InToTime(p) == IF p.kind = "date" THEN At(p.t) ELSE Null

NoReq ==
    [op |-> "none", auth |-> TRUE, id |-> 0, route |-> "", stamp |-> FALSE,
     title |-> <<>>, slug |-> <<>>, status |-> DRAFT, topic |-> NoTopic,
     tags |-> {}, published_at |-> BlankIn, content |-> "", excerpt |-> "",
     image_ids |-> <<>>, body_ok |-> TRUE, q |-> <<>>, selected |-> {}]

NoLast == [req |-> NoReq, out |-> "none", saves |-> <<>>, keep |-> {},
           value |-> "False"]

\* Requests that run at the same time, each in a worker of its own; Idle is
\* a worker without a request.  mem is the Article instance the request
\* holds in memory, pc the step it takes next, next_image the id the next
\* uploaded image was going to get when the request arrived.
Procs == {"w1", "w2"}
Idle == [pc |-> "idle", req |-> NoReq, mem |-> BlankArticle, next_image |-> 0]

(* ------------------------------ ArticleForm --------------------------- *)
\* forms.CharField strips surrounding whitespace before validating.
StripSpaces(s) == Strip(s, {" "})

\* Field-level validation of the declared and model fields.
FieldErrors(data, tps) ==
    {f \in {"title", "status", "topic", "tags", "published_at", "content"} :
        \/ f = "title" /\ StripSpaces(data.title) = <<>>
        \/ f = "status" /\ data.status \notin Status
        \/ f = "topic" /\ data.topic \notin tps
        \/ f = "tags" /\ ~(data.tags \subseteq TagIds)
        \/ f = "published_at" /\ data.published_at.kind = "bad"
        \/ f = "content" /\ data.content = ""}

\* ArticleForm.clean_published_at: "ok", "error" (ValidationError) or
\* "crash" (KeyError on cleaned_data['status'], AttributeError on None.date()).
clean_published_at(has_pk, original_date, data, t) ==
    LET published_at == InToTime(data.published_at)
    IN  IF data.status \notin Status THEN "crash"
        ELSE IF has_pk /\ data.status = SCHEDULED
        THEN IF published_at = Null \/ original_date = Null THEN "crash"
             ELSE IF Date(TimeOf(published_at)) < Date(TimeOf(original_date))
                  THEN "error" ELSE "ok"
        ELSE IF data.status = PUBLISHED
        THEN IF published_at = Null THEN "crash"
             ELSE IF Date(TimeOf(published_at)) < Date(t)
                  THEN "error" ELSE "ok"
        ELSE "ok"

\* form.is_valid(): "valid", "errors" or "crash" (an exception other than
\* ValidationError escapes full_clean).
FormOutcome(has_pk, original_date, data, tps, t) ==
    LET cpa == IF data.published_at.kind = "bad" THEN "ok"
               ELSE clean_published_at(has_pk, original_date, data, t)
    IN  IF cpa = "crash" THEN "crash"
        ELSE IF FieldErrors(data, tps) # {} \/ cpa = "error" THEN "errors"
        ELSE "valid"

\* construct_instance: the cleaned form fields written onto the instance
CleanedWithSlug(instance, data) ==
    [instance EXCEPT !.title = StripSpaces(data.title),
                     !.slug = data.slug,
                     !.status = data.status,
                     !.topic = data.topic,
                     !.tags = data.tags,
                     !.published_at = InToTime(data.published_at),
                     !.content = data.content,
                     !.excerpt = data.excerpt]

Cleaned(instance, data) ==
    [instance EXCEPT !.title = StripSpaces(data.title),
                     !.status = data.status,
                     !.topic = data.topic,
                     !.tags = data.tags,
                     !.published_at = InToTime(data.published_at),
                     !.content = data.content,
                     !.excerpt = data.excerpt]

(* --------------------------- image-id list ---------------------------- *)
RECURSIVE Split(_, _)
Split(s, sep) ==
    IF \A i \in 1..Len(s) : s[i] # sep THEN <<s>>
    ELSE LET k == CHOOSE i \in 1..Len(s) :
                      s[i] = sep /\ \A j \in 1..(i - 1) : s[j] # sep
         IN  <<SubSeq(s, 1, k - 1)>> \o Split(SubSeq(s, k + 1, Len(s)), sep)

IsJsonInt(tok) ==
    /\ tok # <<>>
    /\ \A i \in 1..Len(tok) : tok[i] \in DigitSet
    /\ (Len(tok) > 1 => tok[1] # "0")

RECURSIVE StrToInt(_)
StrToInt(tok) ==
    IF tok = <<>> THEN 0
    ELSE 10 * StrToInt(SubSeq(tok, 1, Len(tok) - 1)) + DigitVal(tok[Len(tok)])

\* set(json.loads(json_ids)): a JSON array of integers gives the set of
\* ids; other text raises JSONDecodeError, a bare number raises TypeError.
ParseImageIds(text) ==
    IF Len(text) >= 2 /\ text[1] = "[" /\ text[Len(text)] = "]"
    THEN LET inner == SubSeq(text, 2, Len(text) - 1)
             toks  == Split(inner, ",")
         IN  IF inner = <<>> THEN [ok |-> TRUE, ids |-> {}, err |-> ""]
             ELSE IF \A i \in 1..Len(toks) : IsJsonInt(toks[i])
             THEN [ok |-> TRUE, ids |-> {StrToInt(toks[i]) : i \in 1..Len(toks)},
                   err |-> ""]
             ELSE [ok |-> FALSE, ids |-> {}, err |-> "JSONDecodeError"]
    ELSE IF IsJsonInt(text) THEN [ok |-> FALSE, ids |-> {}, err |-> "TypeError"]
    ELSE [ok |-> FALSE, ids |-> {}, err |-> "JSONDecodeError"]

\* form.cleaned_data.get('image_ids') or "[]"
JsonIds(image_ids) ==
    IF StripSpaces(image_ids) = <<>> THEN <<"[", "]">>
    ELSE StripSpaces(image_ids)

(* ------------------------- image reconciliation ----------------------- *)
\* ArticleImage.objects.filter(article=article).exclude(id__in=image_ids)
OrphansFirstOnly(imgs, id, keep) ==
    LET all == {i \in DOMAIN imgs : imgs[i].article = id /\ i \notin keep}
    IN  {i \in all : \A j \in all : i <= j}

OrphansInverted(imgs, id, keep) ==
    {i \in DOMAIN imgs : imgs[i].article = id /\ i \in keep}

OrphansOfAnyArticle(imgs, id, keep) ==
    {i \in DOMAIN imgs : i \notin keep}

Orphans(imgs, id, keep) ==
    {i \in DOMAIN imgs : imgs[i].article = id /\ i \notin keep}

\* post_delete signal of ArticleImage: the backing file is removed when it
\* exists; a missing file is skipped.
RemoveFiles(fs, gone) == fs \ gone

\* QuerySet.delete() of a set of ArticleImage rows
DeleteImages(imgs, fs, gone) ==
    [images |-> [i \in DOMAIN imgs \ gone |-> imgs[i]],
     files  |-> RemoveFiles(fs, gone)]

Reconcile(imgs, fs, id, keep) == DeleteImages(imgs, fs, Orphans(imgs, id, keep))

(* ------------------------------ handlers ------------------------------ *)
Result(out, db, imgs, fs, saves, keep) ==
    [out |-> out, articles |-> db, images |-> imgs, files |-> fs,
     saves |-> saves, keep |-> keep]

\* The persisted state and the request log after a request.
Commit(req, r) ==
    /\ articles' = r.articles
    /\ images' = r.images
    /\ files' = r.files
    /\ last' = [req |-> req, out |-> r.out, saves |-> r.saves, keep |-> r.keep,
                value |-> "False"]

Unchanged(out) == Result(out, articles, images, files, <<>>, {})

\* updated_article.published_at = timezone.now()
StampPublishedAtUnlessSet(row, t) ==
    IF row.published_at = Null THEN [row EXCEPT !.published_at = At(t)] ELSE row

StampPublishedAt(row, t) == [row EXCEPT !.published_at = At(t)]

\* _article_editor, POST branch, reached through edit (by slug) or drafts
\* (by id, Draft only).  req.stamp tells the views package version, which
\* stamps published_at and saves again, from views.py, which does not.
EditorResult(req) ==
    LET id == req.id
        found == /\ id \in DOMAIN articles
                 /\ req.route = "edit" => articles[id].slug # <<>>
                 /\ req.route = "drafts" => articles[id].status = DRAFT
    IN  IF ~req.auth \/ ~found THEN Unchanged("404")
        ELSE
        LET article == articles[id]
            fo == FormOutcome(TRUE, article.published_at, req, topics, now)
        IN  IF fo = "crash" THEN Unchanged("crash")
            ELSE IF fo = "errors" THEN Unchanged("form_errors")
            ELSE
            LET s1 == ArticleSave(articles, id, Cleaned(article, req), now)
                s2 == IF req.stamp /\ s1.ok
                      THEN ArticleSave(s1.db, id,
                               StampPublishedAt(s1.row, now), now)
                      ELSE s1
                saves == IF req.stamp /\ s1.ok THEN <<s1.call, s2.call>>
                         ELSE <<s1.call>>
                parsed == ParseImageIds(JsonIds(req.image_ids))
            IN  IF ~s2.ok
                THEN Result("integrity_error", s2.db, images, files, saves, {})
                ELSE IF ~parsed.ok
                THEN Result("json_error", s2.db, images, files, saves, {})
                ELSE LET rec == Reconcile(images, files, id, parsed.ids)
                     IN  Result("redirect", s2.db, rec.images, rec.files,
                                saves, parsed.ids)

EditorPost(req) ==
    /\ req.op = "editor"
    /\ Commit(req, EditorResult(req))
    /\ UNCHANGED <<nextId, nextImageId, topics, nextTopicId, now>>
    /\ UNCHANGED pending

\* Article.objects.create(title=..., slug=..., status=..., published_at=...)
CreateArticle(req) ==
    /\ req.op = "create"
    /\ nextId <= MaxArticles
    /\ LET mem == [BlankArticle EXCEPT !.title = req.title, !.slug = req.slug,
                       !.status = req.status, !.content = req.content,
                       !.topic = req.topic,
                       !.published_at = InToTime(req.published_at)]
           s == ArticleSave(articles, nextId, mem, now)
       IN  /\ Commit([req EXCEPT !.id = nextId],
                     Result(IF s.ok THEN "created" ELSE "integrity_error",
                            s.db, images, files, <<s.call>>, {}))
           /\ nextId' = IF s.ok THEN nextId + 1 ELSE nextId
    /\ UNCHANGED <<nextImageId, topics, nextTopicId, now>>
    /\ UNCHANGED pending

\* write: a new empty Draft
Write(req) ==
    /\ req.op = "write"
    /\ nextId <= MaxArticles
    /\ IF ~req.auth
       THEN /\ Commit(req, Unchanged("404"))
            /\ UNCHANGED nextId
       ELSE LET s == ArticleSave(articles, nextId, BlankArticle, now)
            IN  /\ Commit([req EXCEPT !.id = nextId],
                          Result(IF s.ok THEN "redirect" ELSE "integrity_error",
                                 s.db, images, files, <<s.call>>, {}))
                /\ nextId' = IF s.ok THEN nextId + 1 ELSE nextId
    /\ UNCHANGED <<nextImageId, topics, nextTopicId, now>>
    /\ UNCHANGED pending

\* autosave: the three fields it assigns before article.save()
AutosaveFieldsAndStatus(article, req) ==
    [article EXCEPT !.title = req.title, !.content = req.content,
                    !.excerpt = req.excerpt, !.status = DRAFT]

AutosaveFields(article, req) ==
    [article EXCEPT !.title = req.title, !.content = req.content,
                    !.excerpt = req.excerpt]

\* autosave: title, content and excerpt of the article with the given id
AutosaveResult(req) ==
    IF ~req.auth THEN Unchanged("401")
    ELSE IF ~req.body_ok THEN Unchanged("crash")
    ELSE IF req.id = 0 THEN Unchanged("400")
    ELSE IF req.id \notin DOMAIN articles THEN Unchanged("404")
    ELSE LET mem == AutosaveFields(articles[req.id], req)
             s == ArticleSave(articles, req.id, mem, now)
         IN  Result(IF s.ok THEN "saved" ELSE "integrity_error",
                    s.db, images, files, <<s.call>>, {})

Autosave(req) ==
    /\ req.op = "autosave"
    /\ Commit(req, AutosaveResult(req))
    /\ UNCHANGED <<nextId, nextImageId, topics, nextTopicId, now>>
    /\ UNCHANGED pending

\* article = Article.objects.get(pk=id); set fields; article.save()
DirectSave(req) ==
    /\ req.op = "save"
    /\ req.id \in DOMAIN articles
    /\ LET mem == [articles[req.id] EXCEPT !.title = req.title,
                       !.status = req.status,
                       !.published_at = InToTime(req.published_at)]
           s == ArticleSave(articles, req.id, mem, now)
       IN  Commit(req, Result(IF s.ok THEN "saved" ELSE "integrity_error",
                              s.db, images, files, <<s.call>>, {}))
    /\ UNCHANGED <<nextId, nextImageId, topics, nextTopicId, now>>
    /\ UNCHANGED pending

\* ArticleImage.article, on_delete=CASCADE: the rows that go with article id
CascadeNothing(imgs, id) == {}
Cascade(imgs, id) == {i \in DOMAIN imgs : imgs[i].article = id}

\* article_delete: the row, and by cascade its ArticleImage rows
ArticleDeleteResult(req) ==
    IF ~req.auth \/ req.id \notin DOMAIN articles THEN Unchanged("404")
    ELSE LET gone == Cascade(images, req.id)
             rec == DeleteImages(images, files, gone)
         IN  Result("redirect",
                    [j \in DOMAIN articles \ {req.id} |-> articles[j]],
                    rec.images, rec.files, <<>>, {})

ArticleDelete(req) ==
    /\ req.op = "delete"
    /\ Commit(req, ArticleDeleteResult(req))
    /\ UNCHANGED <<nextId, nextImageId, topics, nextTopicId, now>>
    /\ UNCHANGED pending

\* upload_image: one ArticleImage for an existing article
UploadImage(req) ==
    /\ req.op = "upload"
    /\ nextImageId <= MaxImages
    /\ IF req.id \notin DOMAIN articles
       THEN /\ Commit(req, Unchanged("400"))
            /\ UNCHANGED nextImageId
       ELSE /\ Commit(req,
                  Result("201", articles,
                         [i \in DOMAIN images \cup {nextImageId} |->
                             IF i = nextImageId THEN [article |-> req.id]
                             ELSE images[i]],
                         files \cup {nextImageId}, <<>>, {}))
            /\ nextImageId' = nextImageId + 1
    /\ UNCHANGED <<nextId, topics, nextTopicId, now>>
    /\ UNCHANGED pending

\* article.is_published()
IsPublished(req) ==
    /\ req.op = "is_published"
    /\ req.id \in DOMAIN articles
    /\ last' = [req |-> req, out |-> "value", saves |-> <<>>, keep |-> {},
                value |-> is_published_value(articles[req.id], now)]
    /\ UNCHANGED <<articles, nextId, images, nextImageId, files, topics, nextTopicId, now>>
    /\ UNCHANGED pending

\* time passes
Tick ==
    /\ now < MaxTime
    /\ now' = now + 1
    /\ last' = [NoLast EXCEPT !.req.op = "tick"]
    /\ UNCHANGED <<articles, nextId, images, nextImageId, files, topics, nextTopicId>>
    /\ UNCHANGED pending

Init ==
    /\ articles = <<>>
    /\ nextId = 1
    /\ images = <<>>
    /\ nextImageId = 1
    /\ files = {}
    /\ topics = {1}
    /\ nextTopicId = 2
    /\ now = 0
    /\ pending = [p \in Procs |-> Idle]
    /\ last = NoLast

(* ------------------------------ requests ------------------------------ *)
ArticleIds == 1..MaxArticles
Routes == {"edit", "drafts"}

CreateReq(title, slug, status, pub) ==
    [NoReq EXCEPT !.op = "create", !.title = title, !.slug = slug,
                  !.status = status, !.published_at = pub]
WriteReq(auth) == [NoReq EXCEPT !.op = "write", !.auth = auth]
AutosaveReq(auth, body_ok, id, title, content) ==
    [NoReq EXCEPT !.op = "autosave", !.auth = auth, !.body_ok = body_ok,
                  !.id = id, !.title = title, !.content = content]
SaveReq(id, title, status, pub) ==
    [NoReq EXCEPT !.op = "save", !.id = id, !.title = title, !.status = status,
                  !.published_at = pub]
DeleteReq(auth, id) == [NoReq EXCEPT !.op = "delete", !.auth = auth, !.id = id]
UploadReq(id) == [NoReq EXCEPT !.op = "upload", !.id = id]
IsPublishedReq(id) == [NoReq EXCEPT !.op = "is_published", !.id = id]
EditorReq(route, stamp, auth, id, title, status, topic, pub, content, ids) ==
    [NoReq EXCEPT !.op = "editor", !.route = route, !.stamp = stamp,
                  !.auth = auth, !.id = id, !.title = title, !.status = status,
                  !.topic = topic, !.published_at = pub, !.content = content,
                  !.image_ids = ids]

(* ------------- SpecCreate: first saves of new articles ---------------- *)
CreateTitles == {<<>>, <<"A", "!">>, <<"a", " ", "1">>}
CreateSlugs == {<<>>, <<"b">>}

NextCreate ==
    \/ \E t \in CreateTitles, sl \in CreateSlugs :
           CreateArticle(CreateReq(t, sl, DRAFT, BlankIn))
    \/ Write(WriteReq(TRUE))
    \/ \E id \in ArticleIds : ArticleDelete(DeleteReq(TRUE, id))

SpecCreate == Init /\ [][NextCreate]_vars

(* ------------- SpecSlug: every path that saves an article ------------- *)
SlugTitles == {<<>>, <<"A", "!">>}
SlugSlugs == {<<>>, <<"a", "-", "1">>}

NextSlug ==
    \/ /\ nextId <= MaxSlugArticles
       /\ \E t \in SlugTitles, sl \in SlugSlugs :
              CreateArticle(CreateReq(t, sl, DRAFT, BlankIn))
    \/ /\ nextId <= MaxSlugArticles
       /\ Write(WriteReq(TRUE))
    \/ \E id \in 1..MaxSlugArticles, t \in SlugTitles :
           Autosave(AutosaveReq(TRUE, TRUE, id, t, ""))
    \/ \E id \in 1..MaxSlugArticles, t \in SlugTitles :
           DirectSave(SaveReq(id, t, DRAFT, BlankIn))
    \/ \E r \in Routes, id \in 1..MaxSlugArticles, t \in SlugTitles :
           EditorPost(EditorReq(r, TRUE, TRUE, id, t, DRAFT, 1, BlankIn, "c", <<>>))
    \/ \E id \in 1..MaxSlugArticles : ArticleDelete(DeleteReq(TRUE, id))

SpecSlug == Init /\ [][NextSlug]_vars

(* ------------- SpecLife: status, published_at and the clock ----------- *)
\* One article is stored at a time.
Times == 0..MaxTime
PubIns == {BlankIn} \cup {DateIn(t) : t \in Times}
LifeTitle == <<"A", "!">>

NextLife ==
    \/ /\ articles = <<>>
       /\ \E st \in Status, p \in PubIns :
              CreateArticle(CreateReq(LifeTitle, <<>>, st, p))
    \/ /\ articles = <<>>
       /\ Write(WriteReq(TRUE))
    \/ \E id \in DOMAIN articles, st \in Status, p \in PubIns :
           DirectSave(SaveReq(id, LifeTitle, st, p))
    \/ \E id \in DOMAIN articles :
           Autosave(AutosaveReq(TRUE, TRUE, id, LifeTitle, ""))
    \/ \E r \in Routes, stamp \in BOOLEAN, id \in DOMAIN articles,
          st \in Status, p \in PubIns :
           EditorPost(EditorReq(r, stamp, TRUE, id, LifeTitle, st, 1, p, "c", <<>>))
    \/ \E id \in DOMAIN articles : IsPublished(IsPublishedReq(id))
    \/ \E id \in DOMAIN articles : ArticleDelete(DeleteReq(TRUE, id))
    \/ Tick

SpecLife == Init /\ [][NextLife]_vars

(* ------------- SpecEditor: editor POSTs and article images ------------ *)
\* One article is stored at a time; its images are uploaded and reconciled.
ImageIdTexts ==
    {<<>>, <<" ">>, <<"[", "]">>, <<"[", "1", ",", "2", "]">>,
     <<"[", "2", ",", "3", "]">>, <<"[", "1", "0", "]">>,
     <<"i", "n", "v", "{">>, <<"5">>}

EditorTitles == {<<"A", "!">>, <<"b">>}

\* Submissions that pass validation for an article without published_at
ValidEdits(id) ==
    {EditorReq(r, stamp, TRUE, id, t, DRAFT, 1, BlankIn, "c", ids) :
        r \in Routes, stamp \in BOOLEAN, t \in EditorTitles, ids \in ImageIdTexts}

DatedEdits(id) ==
    {EditorReq(r, stamp, TRUE, id, <<"b">>, st, 1, DateIn(t), "c", <<"[", "]">>) :
        r \in Routes, stamp \in BOOLEAN, st \in {SCHEDULED, PUBLISHED},
        t \in {0, MaxTime}}

\* Submissions with one thing wrong each
BaseEdit(id, r) ==
    EditorReq(r, TRUE, TRUE, id, <<"b">>, DRAFT, 1, BlankIn, "c",
              <<"[", "2", ",", "3", "]">>)

InvalidEdits(id) ==
    UNION {{[BaseEdit(id, r) EXCEPT !.title = <<" ">>],
            [BaseEdit(id, r) EXCEPT !.title = <<>>, !.status = PUBLISHED],
            [BaseEdit(id, r) EXCEPT !.status = "XX"],
            [BaseEdit(id, r) EXCEPT !.status = PUBLISHED],
            [BaseEdit(id, r) EXCEPT !.status = SCHEDULED],
            [BaseEdit(id, r) EXCEPT !.topic = NoTopic],
            [BaseEdit(id, r) EXCEPT !.topic = 9],
            [BaseEdit(id, r) EXCEPT !.tags = {9}],
            [BaseEdit(id, r) EXCEPT !.published_at = BadIn],
            [BaseEdit(id, r) EXCEPT !.content = ""]} : r \in Routes}

NextEditor ==
    \/ /\ articles = <<>>
       /\ CreateArticle(CreateReq(<<"A", "!">>, <<>>, DRAFT, BlankIn))
    \/ \E id \in DOMAIN articles : UploadImage(UploadReq(id))
    \/ \E id \in DOMAIN articles : \E req \in ValidEdits(id) : EditorPost(req)
    \/ \E id \in DOMAIN articles : \E req \in DatedEdits(id) : EditorPost(req)
    \/ \E id \in DOMAIN articles : \E req \in InvalidEdits(id) : EditorPost(req)
    \/ \E id \in DOMAIN articles, r \in Routes :
           EditorPost([BaseEdit(id, r) EXCEPT !.auth = FALSE])
    \/ Tick

SpecEditor == Init /\ [][NextEditor]_vars

(* ------------- SpecForm: ArticleForm validation on its own ------------ *)
\* The fields form.errors names after full_clean.
FormErrors(has_pk, original_date, data, tps, t) ==
    LET cpa == IF data.published_at.kind = "bad" THEN "ok"
               ELSE clean_published_at(has_pk, original_date, data, t)
    IN  FieldErrors(data, tps)
            \cup (IF cpa = "error" THEN {"published_at"} ELSE {})

\* ArticleForm(data).is_valid() for a new article (req.id = 0) and
\* ArticleForm(data, instance=article).is_valid() for a stored one.
ValidateForm(req) ==
    /\ req.op = "validate"
    /\ req.id = 0 \/ req.id \in DOMAIN articles
    /\ LET has_pk == req.id # 0
           original_date == IF has_pk THEN articles[req.id].published_at
                            ELSE Null
           fo == FormOutcome(has_pk, original_date, req, topics, now)
       IN  last' = [NoLast EXCEPT
                       !.req = req,
                       !.out = fo,
                       !.value = IF fo = "crash" THEN {}
                                 ELSE FormErrors(has_pk, original_date, req,
                                                 topics, now)]
    /\ UNCHANGED <<articles, nextId, images, nextImageId, files, topics, nextTopicId, now>>
    /\ UNCHANGED pending

FormReq(id, status, pub) ==
    [NoReq EXCEPT !.op = "validate", !.id = id, !.title = <<"A", "!">>,
                  !.status = status, !.topic = 1, !.published_at = pub,
                  !.content = "c"]

\* One article is stored at a time; every other submitted field is valid.
NextForm ==
    \/ /\ articles = <<>>
       /\ \E st \in Status, p \in PubIns :
              CreateArticle(CreateReq(LifeTitle, <<>>, st, p))
    \/ \E st \in Status, p \in PubIns : ValidateForm(FormReq(0, st, p))
    \/ \E id \in DOMAIN articles, st \in Status, p \in PubIns :
           ValidateForm(FormReq(id, st, p))
    \/ \E id \in DOMAIN articles : ArticleDelete(DeleteReq(TRUE, id))
    \/ Tick

SpecForm == Init /\ [][NextForm]_vars

(* ------------------- read endpoints: search and detail ---------------- *)
\* Code points of the characters titles are written in (binary collation).
AsciiOf ==
    (" " :> 32) @@ ("!" :> 33) @@ ("-" :> 45) @@ ("A" :> 65) @@ ("B" :> 66)
        @@ ("_" :> 95) @@ ("a" :> 97) @@ ("b" :> 98)
CodePoint(c) == IF c \in DigitSet THEN 48 + DigitVal(c) ELSE AsciiOf[c]

\* ORDER BY title: s sorts at or before t
RECURSIVE TitleLeq(_, _)
TitleLeq(s, t) ==
    IF s = <<>> THEN TRUE
    ELSE IF t = <<>> THEN FALSE
    ELSE IF s[1] = t[1] THEN TitleLeq(Tail(s), Tail(t))
    ELSE CodePoint(s[1]) < CodePoint(t[1])

\* title__icontains=query
IContains(title, query) ==
    LET s == LowerStr(title)
        sub == LowerStr(query)
    IN  \E i \in 1..(Len(s) - Len(sub) + 1) :
            SubSeq(s, i, i + Len(sub) - 1) = sub

\* Every order in which the rows of ids can come back under order_by('title');
\* rows with equal titles come in any order.
RECURSIVE TitleOrders(_, _)
TitleOrders(db, ids) ==
    IF ids = {} THEN {<<>>}
    ELSE UNION {{<<m>> \o rest : rest \in TitleOrders(db, ids \ {m})} :
                   m \in {i \in ids :
                            \A j \in ids : TitleLeq(db[i].title, db[j].title)}}

Reverse(o) == [i \in 1..Len(o) |-> o[Len(o) + 1 - i]]

RESULTS_LIMIT == 5

\* Article.search_serialize
search_serialize(article) == [title |-> article.title, slug |-> article.slug]

\* query = query.strip()
StripQueryNot(query) == query
StripQuery(query) == StripSpaces(query)

\* .filter(status=Article.Status.PUBLISHED)
SearchStatus(a) == a.status = PUBLISHED

\* The result lists search_article can answer with for a stripped query.
OrderByTitleDescending(db, ids) == {Reverse(o) : o \in TitleOrders(db, ids)}
OrderByTitle(db, ids) == TitleOrders(db, ids)

SearchResults(db, query) ==
    LET qSet == {id \in DOMAIN db :
                    SearchStatus(db[id]) /\ IContains(db[id].title, query)}
    IN  {[i \in 1..(IF Len(o) < RESULTS_LIMIT THEN Len(o) ELSE RESULTS_LIMIT)
             |-> search_serialize(db[o[i]])] : o \in OrderByTitle(db, qSet)}

\* search_article; req.body_ok tells whether the request carries q at all.
Search(req) ==
    /\ req.op = "search"
    /\ IF ~req.body_ok
       THEN last' = [NoLast EXCEPT !.req = req, !.out = "crash"]
       ELSE LET query == StripQuery(req.q)
            IN  IF query = <<>>
                THEN last' = [NoLast EXCEPT !.req = req, !.out = "empty",
                                            !.value = <<>>]
                ELSE \E r \in SearchResults(articles, query) :
                         last' = [NoLast EXCEPT !.req = req, !.out = "results",
                                                !.value = r]
    /\ UNCHANGED <<articles, nextId, images, nextImageId, files, topics, nextTopicId, now>>
    /\ UNCHANGED pending

\* articles: the status filter of the lookup
DetailVisibleToAll(auth, a) == TRUE
DetailVisible(auth, a) == auth \/ a.status = PUBLISHED

\* articles: the detail page of one article, looked up by slug.  The URL
\* pattern <str:article_slug> matches no empty slug.
ArticleDetail(req) ==
    /\ req.op = "detail"
    /\ LET found == {id \in DOMAIN articles :
                        /\ articles[id].slug = req.slug
                        /\ DetailVisible(req.auth, articles[id])}
       IN  last' = IF req.slug = <<>> \/ found = {}
                   THEN [NoLast EXCEPT !.req = req, !.out = "404"]
                   ELSE [NoLast EXCEPT
                            !.req = req, !.out = "200",
                            !.value = articles[CHOOSE id \in found : TRUE]]
    /\ UNCHANGED <<articles, nextId, images, nextImageId, files, topics, nextTopicId, now>>
    /\ UNCHANGED pending

SearchReq(present, q) ==
    [NoReq EXCEPT !.op = "search", !.body_ok = present, !.q = q]
DetailReq(auth, slug) ==
    [NoReq EXCEPT !.op = "detail", !.auth = auth, !.slug = slug]

(* ------------- SpecRead: search and detail over stored articles ------- *)
\* The articles are stored before the first request and only read after:
\* up to MaxAlike of each kind of row, kind after kind, so that the order
\* of creation is not the order of the titles.
ReadRows ==
    <<[title |-> <<"b", "a">>, status |-> PUBLISHED],
      [title |-> <<"A", "b">>, status |-> DRAFT],
      [title |-> <<"a", " ", "b">>, status |-> PUBLISHED],
      [title |-> <<"a", " ", "b">>, status |-> SCHEDULED],
      [title |-> <<"A", "b">>, status |-> PUBLISHED]>>

RECURSIVE Repeat(_, _)
Repeat(x, k) == IF k = 0 THEN <<>> ELSE <<x>> \o Repeat(x, k - 1)

RECURSIVE Batches(_, _)
Batches(kinds, counts) ==
    IF kinds = <<>> THEN <<>>
    ELSE Repeat(Head(kinds), Head(counts))
             \o Batches(Tail(kinds), Tail(counts))

RECURSIVE SumSeq(_)
SumSeq(counts) ==
    IF counts = <<>> THEN 0 ELSE Head(counts) + SumSeq(Tail(counts))

ReadQueries ==
    {<<>>, <<" ">>, <<"A">>, <<" ", "a", "B", " ">>, <<"B", "a">>}

ReadSlugs ==
    {<<>>, <<"a", "b">>, <<"a", "b", "-", "1">>, <<"a", "-", "b">>,
     <<"b", "b">>}

\* Article.objects.create for each row in turn, at time 0: Published rows
\* are published at 0, Scheduled rows are due at MaxTime.
RECURSIVE Populate(_)
Populate(rows) ==
    IF rows = <<>> THEN <<>>
    ELSE LET n == Len(rows)
             row == rows[n]
             mem == [BlankArticle EXCEPT
                        !.title = row.title,
                        !.status = row.status,
                        !.published_at =
                            IF row.status = DRAFT THEN Null
                            ELSE IF row.status = PUBLISHED THEN At(0)
                            ELSE At(MaxTime)]
         IN  ArticleSave(Populate(SubSeq(rows, 1, n - 1)), n, mem, 0).db

InitRead ==
    /\ \E counts \in [1..Len(ReadRows) -> 0..MaxAlike] :
           /\ SumSeq(counts) <= MaxSearchArticles
           /\ articles = Populate(Batches(ReadRows, counts))
           /\ nextId = SumSeq(counts) + 1
    /\ images = <<>>
    /\ nextImageId = 1
    /\ files = {}
    /\ topics = {1}
    /\ nextTopicId = 2
    /\ now = 0
    /\ pending = [p \in Procs |-> Idle]
    /\ last = NoLast

NextRead ==
    \/ \E q \in ReadQueries : Search(SearchReq(TRUE, q))
    \/ Search(SearchReq(FALSE, <<>>))
    \/ \E auth \in BOOLEAN, sl \in ReadSlugs : ArticleDetail(DetailReq(auth, sl))

SpecRead == InitRead /\ [][NextRead]_vars

(* ------------------------------- topics ------------------------------- *)
\* TopicForm(request.POST).is_valid(); req.body_ok tells whether the
\* submitted name is given and not taken.
TopicFormValid(req) == req.body_ok

\* topics_api: a new Topic row for an authenticated caller
TopicsApi(req) ==
    /\ req.op = "topic_create"
    /\ (req.auth /\ TopicFormValid(req)) => nextTopicId <= MaxTopics
    /\ IF ~req.auth
       THEN /\ Commit(req, Unchanged("401"))
            /\ UNCHANGED <<topics, nextTopicId>>
       ELSE IF ~TopicFormValid(req)
       THEN /\ Commit(req, Unchanged("400"))
            /\ UNCHANGED <<topics, nextTopicId>>
       ELSE /\ Commit(req, Unchanged("201"))
            /\ topics' = topics \cup {nextTopicId}
            /\ nextTopicId' = nextTopicId + 1
    /\ UNCHANGED <<nextId, nextImageId, now>>
    /\ UNCHANGED pending

\* on_delete of Article.topic: what deleting Topic t does to the articles
OnTopicDeleteCascade(db, t) ==
    [id \in {i \in DOMAIN db : db[i].topic # t} |-> db[id]]

OnTopicDelete(db, t) ==
    [id \in DOMAIN db |->
        IF db[id].topic = t THEN [db[id] EXCEPT !.topic = NoTopic] ELSE db[id]]

\* topic.delete()
TopicDelete(req) ==
    /\ req.op = "topic_delete"
    /\ req.topic \in topics
    /\ topics' = topics \ {req.topic}
    /\ Commit(req, Result("deleted", OnTopicDelete(articles, req.topic),
                          images, files, <<>>, {}))
    /\ UNCHANGED <<nextId, nextImageId, nextTopicId, now>>
    /\ UNCHANGED pending

TopicCreateReq(auth, valid) ==
    [NoReq EXCEPT !.op = "topic_create", !.auth = auth, !.body_ok = valid]
TopicDeleteReq(t) == [NoReq EXCEPT !.op = "topic_delete", !.topic = t]

(* ------------- SpecAuth: requests without an authenticated caller ----- *)
\* One article is stored at a time; the authenticated requests build the
\* state the anonymous ones are sent against.
AnonymousRequests(id) ==
    {[BaseEdit(id, r) EXCEPT !.auth = FALSE] : r \in Routes}
        \cup {DeleteReq(FALSE, id),
              WriteReq(FALSE),
              AutosaveReq(FALSE, TRUE, id, <<"b">>, "c"),
              [UploadReq(id) EXCEPT !.auth = FALSE],
              TopicCreateReq(FALSE, TRUE)}

Handle(req) ==
    \/ EditorPost(req)
    \/ ArticleDelete(req)
    \/ Write(req)
    \/ Autosave(req)
    \/ UploadImage(req)
    \/ TopicsApi(req)

NextAuth ==
    \/ /\ articles = <<>>
       /\ CreateArticle(CreateReq(<<"A", "!">>, <<>>, DRAFT, BlankIn))
    \/ /\ articles = <<>>
       /\ Write(WriteReq(TRUE))
    \/ \E id \in DOMAIN articles : UploadImage(UploadReq(id))
    \/ \E id \in DOMAIN articles :
           Autosave(AutosaveReq(TRUE, TRUE, id, <<"b">>, "c"))
    \/ \E id \in DOMAIN articles : ArticleDelete(DeleteReq(TRUE, id))
    \/ \E valid \in BOOLEAN : TopicsApi(TopicCreateReq(TRUE, valid))
    \/ \E id \in ArticleIds : \E req \in AnonymousRequests(id) : Handle(req)

SpecAuth == Init /\ [][NextAuth]_vars

(* ------------- SpecAutosave: autosave next to other articles ---------- *)
\* Up to MaxSlugArticles articles, created with a title or through /write,
\* as Draft or as Scheduled for MaxTime; at most one image.
AutosaveCreates ==
    {[CreateReq(<<"b">>, <<>>, DRAFT, BlankIn) EXCEPT !.topic = 1],
     [CreateReq(<<"b">>, <<>>, SCHEDULED, DateIn(MaxTime)) EXCEPT !.topic = 1]}

NextAutosave ==
    \/ /\ nextId <= MaxSlugArticles
       /\ \E req \in AutosaveCreates : CreateArticle(req)
    \/ /\ nextId <= MaxSlugArticles
       /\ Write(WriteReq(TRUE))
    \/ /\ images = <<>>
       /\ \E id \in DOMAIN articles : UploadImage(UploadReq(id))
    \/ \E id \in DOMAIN articles, t \in {<<>>, <<"A", "!">>} :
           Autosave(AutosaveReq(TRUE, TRUE, id, t, "c"))
    \/ Tick

SpecAutosave == Init /\ [][NextAutosave]_vars

(* ------------- SpecTopic: topics and the articles that refer to them -- *)
\* Every article is created with a stored topic.
NextTopic ==
    \/ \E t \in topics :
           CreateArticle([CreateReq(<<"A", "!">>, <<>>, DRAFT, BlankIn)
                             EXCEPT !.topic = t])
    \/ \E valid \in BOOLEAN : TopicsApi(TopicCreateReq(TRUE, valid))
    \/ \E t \in 1..MaxTopics : TopicDelete(TopicDeleteReq(t))
    \/ \E id \in ArticleIds : ArticleDelete(DeleteReq(TRUE, id))

SpecTopic == Init /\ [][NextTopic]_vars

(* ------------- SpecImage: images, their files and article deletion ---- *)
\* os.remove(image_path): a backing file disappears while its row stays.
FileRemoved(i) ==
    /\ i \in files
    /\ files' = files \ {i}
    /\ last' = [NoLast EXCEPT !.req.op = "file_removed", !.keep = {i}]
    /\ UNCHANGED <<articles, nextId, images, nextImageId, topics, nextTopicId,
                   now>>
    /\ UNCHANGED pending

NextImage ==
    \/ /\ nextId <= MaxSlugArticles
       /\ CreateArticle(CreateReq(<<"A", "!">>, <<>>, DRAFT, BlankIn))
    \/ \E id \in DOMAIN articles : UploadImage(UploadReq(id))
    \/ \E i \in DOMAIN images : FileRemoved(i)
    \/ \E auth \in BOOLEAN, id \in 1..MaxSlugArticles :
           ArticleDelete(DeleteReq(auth, id))

SpecImage == Init /\ [][NextImage]_vars

(* ------------------- listings and the admin actions ------------------- *)
\* created_at is set once, when the row is inserted (auto_now_add); rows
\* are inserted one after another, so it grows with the id.
created_at(id) == id

\* Meta.ordering = ['-published_at', '-created_at']: row i comes before row
\* j.  Where NULL sorts under ORDER BY ... DESC is the database's choice:
\* first on PostgreSQL and Oracle, last on SQLite and MySQL.
ComesBefore(db, i, j, nulls_first) ==
    LET p == db[i].published_at
        q == db[j].published_at
    IN  IF p = Null /\ q = Null THEN created_at(i) > created_at(j)
        ELSE IF p = Null THEN nulls_first
        ELSE IF q = Null THEN ~nulls_first
        ELSE \/ TimeOf(p) > TimeOf(q)
             \/ TimeOf(p) = TimeOf(q) /\ created_at(i) > created_at(j)

RECURSIVE MetaOrdering(_, _, _)
MetaOrdering(db, ids, nulls_first) ==
    IF ids = {} THEN <<>>
    ELSE LET m == CHOOSE i \in ids :
                      \A j \in ids \ {i} : ComesBefore(db, i, j, nulls_first)
         IN  <<m>> \o MetaOrdering(db, ids \ {m}, nulls_first)

ARTICLES_PER_PAGE == 10
FirstN(s, n) == SubSeq(s, 1, IF Len(s) < n THEN Len(s) ELSE n)

\* list(Article.objects.all()): the ids in the default order
ListArticles(req) ==
    /\ req.op = "list"
    /\ \E nulls_first \in BOOLEAN :
           last' = [NoLast EXCEPT
                       !.req = req, !.out = "200",
                       !.value = MetaOrdering(articles, DOMAIN articles,
                                              nulls_first)]
    /\ UNCHANGED <<articles, nextId, images, nextImageId, files, topics,
                   nextTopicId, now>>
    /\ UNCHANGED pending

\* index: the first page of the Published articles, for any caller
IndexFilter(a) == a.status = PUBLISHED

Index(req) ==
    /\ req.op = "index"
    /\ \E nulls_first \in BOOLEAN :
           last' = [NoLast EXCEPT
                       !.req = req, !.out = "200",
                       !.value =
                           FirstN(MetaOrdering(articles,
                                      {id \in DOMAIN articles :
                                          IndexFilter(articles[id])},
                                      nulls_first), ARTICLES_PER_PAGE)]
    /\ UNCHANGED <<articles, nextId, images, nextImageId, files, topics,
                   nextTopicId, now>>
    /\ UNCHANGED pending

\* topic: every article of the topic, whatever its status, for any caller;
\* the sidebar holds the (up to) TOP_ARTICLES most viewed of them.
TOP_ARTICLES == 5

\* .order_by('-views')[:5] as a set of ids; no view of the application
\* changes the view counts, so any TOP_ARTICLES of the topic's articles
\* can be the top ones.
TopArticles(ids) ==
    {S \in SUBSET ids :
        Cardinality(S) = (IF Cardinality(ids) < TOP_ARTICLES
                          THEN Cardinality(ids) ELSE TOP_ARTICLES)}

TopicPage(req) ==
    /\ req.op = "topic"
    /\ IF req.topic \notin topics
       THEN last' = [NoLast EXCEPT !.req = req, !.out = "404"]
       ELSE LET ids == {id \in DOMAIN articles :
                           articles[id].topic = req.topic}
            IN  \E nulls_first \in BOOLEAN, top \in TopArticles(ids) :
                    last' = [NoLast EXCEPT
                                !.req = req, !.out = "200",
                                !.keep = top,
                                !.value = FirstN(MetaOrdering(articles, ids,
                                                     nulls_first),
                                                 ARTICLES_PER_PAGE)]
    /\ UNCHANGED <<articles, nextId, images, nextImageId, files, topics,
                   nextTopicId, now>>
    /\ UNCHANGED pending

\* ArticleAdmin.publish_selected and unpublish_selected:
\* queryset.update(status=...) on the selected rows, without Article.save
AdminSetStatus(req) ==
    /\ req.op \in {"publish_selected", "unpublish_selected"}
    /\ req.selected \subseteq DOMAIN articles
    /\ Commit(req,
           Result("updated",
                  [id \in DOMAIN articles |->
                      IF id \in req.selected
                      THEN [articles[id] EXCEPT
                               !.status = IF req.op = "publish_selected"
                                          THEN PUBLISHED ELSE DRAFT]
                      ELSE articles[id]],
                  images, files, <<>>, {}))
    /\ UNCHANGED <<nextId, nextImageId, topics, nextTopicId, now>>
    /\ UNCHANGED pending

ListReq == [NoReq EXCEPT !.op = "list"]
IndexReq(auth) == [NoReq EXCEPT !.op = "index", !.auth = auth]
TopicPageReq(auth, t) ==
    [NoReq EXCEPT !.op = "topic", !.auth = auth, !.topic = t]
AdminReq(op, ids) == [NoReq EXCEPT !.op = op, !.selected = ids]

(* ------------- SpecList: what the read endpoints show ----------------- *)
\* Up to MaxSlugArticles articles of topic 1, in every status, with or
\* without a publish date; the admin actions; the clock.
ListPubs == {BlankIn, DateIn(0), DateIn(MaxTime)}
ListSlugs == {<<"a">>, <<"a", "-", "1">>}

NextList ==
    \/ /\ nextId <= MaxSlugArticles
       /\ \E st \in Status, p \in ListPubs :
              CreateArticle([CreateReq(<<"A", "!">>, <<>>, st, p)
                                EXCEPT !.topic = 1])
    \/ \E op \in {"publish_selected", "unpublish_selected"} :
           \E ids \in (SUBSET DOMAIN articles) \ {{}} :
               AdminSetStatus(AdminReq(op, ids))
    \/ ListArticles(ListReq)
    \/ \E auth \in BOOLEAN : Index(IndexReq(auth))
    \/ \E auth \in BOOLEAN, t \in 1..MaxTopics : TopicPage(TopicPageReq(auth, t))
    \/ Search(SearchReq(TRUE, <<"a">>))
    \/ \E auth \in BOOLEAN, sl \in ListSlugs : ArticleDetail(DetailReq(auth, sl))
    \/ Tick

SpecList == Init /\ [][NextList]_vars

(* ------------- requests that run at the same time --------------------- *)
\* Article.save in two steps: the slug loop and the status promotion on
\* the instance in memory, then super().save().
SavePrepare(db, mem, t) == WithStatus(WithSlug(db, mem), t)

SaveWrite(db, id, row) ==
    LET ok == ~SlugConflict(db, id, row.slug)
    IN  [ok |-> ok, db |-> IF ok THEN DbWrite(db, id, row) ELSE db]

Busy(p, pc, req, mem) ==
    pending' = [pending EXCEPT ![p] = [pc |-> pc, req |-> req, mem |-> mem,
                                       next_image |-> nextImageId]]
Done(p) == pending' = [pending EXCEPT ![p] = Idle]

\* Article.objects.create(...), up to the call of super().save()
BeginCreate(p, req) ==
    /\ req.op = "create"
    /\ pending[p].pc = "idle"
    /\ LET mem == [BlankArticle EXCEPT !.title = req.title, !.slug = req.slug,
                       !.status = req.status, !.content = req.content,
                       !.topic = req.topic,
                       !.published_at = InToTime(req.published_at)]
       IN  Busy(p, "insert", req, SavePrepare(articles, mem, now))
    /\ last' = [NoLast EXCEPT !.req = req, !.out = "begun"]
    /\ UNCHANGED <<articles, nextId, images, nextImageId, files, topics,
                   nextTopicId, now>>

\* super().save() of a new article: the INSERT, or the IntegrityError that
\* ends the request
FinishCreate(p) ==
    /\ pending[p].pc = "insert"
    /\ LET w == SaveWrite(articles, nextId, pending[p].mem)
       IN  /\ Commit([pending[p].req EXCEPT !.id = nextId],
                     Result(IF w.ok THEN "created" ELSE "integrity_error",
                            w.db, images, files, <<>>, {}))
           /\ nextId' = IF w.ok THEN nextId + 1 ELSE nextId
    /\ Done(p)
    /\ UNCHANGED <<nextImageId, topics, nextTopicId, now>>

(* ------------- SpecRaceCreate: first saves at the same time ----------- *)
RaceTitles == {<<"A", "!">>, <<"b">>}

NextRaceCreate ==
    \/ /\ nextId <= MaxSlugArticles
       /\ \E p \in Procs, t \in RaceTitles :
              BeginCreate(p, CreateReq(t, <<>>, DRAFT, BlankIn))
    \/ \E p \in Procs : FinishCreate(p)
    \/ \E id \in DOMAIN articles : ArticleDelete(DeleteReq(TRUE, id))

SpecRaceCreate == Init /\ [][NextRaceCreate]_vars

(* ----------------- editor saves next to another article ----------------- *)
\* Two articles, each with uploaded images, and editor saves of either one
\* with every kind of image-id list.
NextEditorTwo ==
    \/ /\ nextId <= MaxSlugArticles
       /\ CreateArticle(CreateReq(<<"A", "!">>, <<>>, DRAFT, BlankIn))
    \/ \E id \in DOMAIN articles : UploadImage(UploadReq(id))
    \/ \E id \in DOMAIN articles, stamp \in BOOLEAN, ids \in ImageIdTexts :
           EditorPost(EditorReq("drafts", stamp, TRUE, id, <<"b">>, DRAFT, 1,
                                BlankIn, "c", ids))

SpecEditorTwo == Init /\ [][NextEditorTwo]_vars

(* ------------- autosave and editor save, step by step ----------------- *)
\* autosave up to article.save(): the row is read and the three text
\* fields are set on the instance in memory.
BeginAutosave(p, req) ==
    /\ req.op = "autosave"
    /\ pending[p].pc = "idle"
    /\ req.auth /\ req.body_ok
    /\ req.id \in DOMAIN articles
    /\ Busy(p, "autosave_save", req, AutosaveFields(articles[req.id], req))
    /\ last' = [NoLast EXCEPT !.req = req, !.out = "begun"]
    /\ UNCHANGED <<articles, nextId, images, nextImageId, files, topics,
                   nextTopicId, now>>

\* article.save() of autosave: every column of the row is written from the
\* instance in memory.
FinishAutosave(p) ==
    /\ pending[p].pc = "autosave_save"
    /\ LET req == pending[p].req
           w == SaveWrite(articles, req.id,
                          SavePrepare(articles, pending[p].mem, now))
       IN  Commit(req, Result(IF w.ok THEN "saved" ELSE "integrity_error",
                              w.db, images, files, <<>>, {}))
    /\ Done(p)
    /\ UNCHANGED <<nextId, nextImageId, topics, nextTopicId, now>>

\* edit / drafts with a POST: the article is looked up and the request,
\* with its image-id list, is in the hands of _article_editor.
BeginEditor(p, req) ==
    /\ req.op = "editor"
    /\ pending[p].pc = "idle"
    /\ req.auth
    /\ req.id \in DOMAIN articles
    /\ req.route = "edit" => articles[req.id].slug # <<>>
    /\ req.route = "drafts" => articles[req.id].status = DRAFT
    /\ Busy(p, "editor_save", req, articles[req.id])
    /\ last' = [NoLast EXCEPT !.req = req, !.out = "begun"]
    /\ UNCHANGED <<articles, nextId, images, nextImageId, files, topics,
                   nextTopicId, now>>

\* form.is_valid(), form.save() and, in the views package, the stamp of
\* published_at with the second save
EditorSave(p) ==
    /\ pending[p].pc = "editor_save"
    /\ LET req == pending[p].req
           mem == pending[p].mem
           fo == FormOutcome(TRUE, mem.published_at, req, topics, now)
           s1 == ArticleSave(articles, req.id, Cleaned(mem, req), now)
           s2 == IF req.stamp /\ s1.ok
                 THEN ArticleSave(s1.db, req.id,
                                  StampPublishedAt(s1.row, now), now)
                 ELSE s1
       IN  IF fo # "valid"
           THEN /\ Commit(req, Unchanged(IF fo = "crash" THEN "crash"
                                         ELSE "form_errors"))
                /\ Done(p)
           ELSE IF ~s2.ok
           THEN /\ Commit(req, Result("integrity_error", s2.db, images, files,
                                      <<>>, {}))
                /\ Done(p)
           ELSE /\ Commit(req, Result("saved", s2.db, images, files, <<>>, {}))
                /\ pending' = [pending EXCEPT ![p].pc = "editor_reconcile",
                                              ![p].mem = s2.row]
    /\ UNCHANGED <<nextId, nextImageId, topics, nextTopicId, now>>

\* json.loads of the image-id list, then
\* ArticleImage.objects.filter(article=article).exclude(id__in=image_ids)
\*     .delete()
EditorReconcile(p) ==
    /\ pending[p].pc = "editor_reconcile"
    /\ LET req == pending[p].req
           parsed == ParseImageIds(JsonIds(req.image_ids))
       IN  IF ~parsed.ok
           THEN Commit(req, Unchanged("json_error"))
           ELSE LET rec == Reconcile(images, files, req.id, parsed.ids)
                IN  Commit(req, Result("redirect", articles, rec.images,
                                       rec.files, <<>>, parsed.ids))
    /\ Done(p)
    /\ UNCHANGED <<nextId, nextImageId, topics, nextTopicId, now>>

(* ------------- SpecRaceAutosave: autosave next to an editor save ------ *)
\* One Draft article; autosaves and editor saves of it that run at the
\* same time, the editor save as Draft or as Published.
RaceEdits(id) ==
    {EditorReq("edit", TRUE, TRUE, id, <<"b">>, st, 1,
               IF st = PUBLISHED THEN DateIn(0) ELSE BlankIn, "c",
               <<"[", "]">>) : st \in {DRAFT, PUBLISHED}}

NextRaceAutosave ==
    \/ /\ articles = <<>>
       /\ CreateArticle(CreateReq(<<"A", "!">>, <<>>, DRAFT, BlankIn))
    \/ \E p \in Procs, id \in DOMAIN articles, t \in RaceTitles :
           BeginAutosave(p, AutosaveReq(TRUE, TRUE, id, t, "c"))
    \/ \E p \in Procs : FinishAutosave(p)
    \/ \E p \in Procs, id \in DOMAIN articles :
           \E req \in RaceEdits(id) : BeginEditor(p, req)
    \/ \E p \in Procs : EditorSave(p)
    \/ \E p \in Procs : EditorReconcile(p)

SpecRaceAutosave == Init /\ [][NextRaceAutosave]_vars

(* ------------- SpecRaceUpload: uploads next to an editor save --------- *)
\* One article; image uploads while an editor save of it is under way.
RaceImageIdTexts == {<<"[", "]">>, <<"[", "1", ",", "2", "]">>, <<"i", "n", "v", "{">>}

NextRaceUpload ==
    \/ /\ articles = <<>>
       /\ CreateArticle(CreateReq(<<"A", "!">>, <<>>, DRAFT, BlankIn))
    \/ \E id \in DOMAIN articles : UploadImage(UploadReq(id))
    \/ \E p \in Procs, id \in DOMAIN articles, ids \in RaceImageIdTexts :
           BeginEditor(p, EditorReq("edit", TRUE, TRUE, id, <<"b">>, DRAFT, 1,
                                    BlankIn, "c", ids))
    \/ \E p \in Procs : EditorSave(p)
    \/ \E p \in Procs : EditorReconcile(p)

SpecRaceUpload == Init /\ [][NextRaceUpload]_vars

(* ------------------------------- claims ------------------------------- *)
Stored(id) == id \in DOMAIN articles
Kept(id) == id \in DOMAIN articles /\ id \in DOMAIN articles'
Dash(n) == <<"-">> \o IntToStr(n)

\* C1: no two stored articles have the same slug, whatever sequence of
\* creations (with or without a caller-supplied slug, duplicate titles
\* included), editor saves, autosaves, direct saves and deletions ran.
C1_SlugsUnique ==
    \A i, j \in DOMAIN articles : i # j => articles[i].slug # articles[j].slug

\* Two articles with the same title are stored next to each other.
C1_Witness ==
    \E i, j \in DOMAIN articles :
        /\ i # j
        /\ articles[i].title = articles[j].title
        /\ articles[i].title # <<>>

\* C2 as stated: no save of a stored article ever changes its slug.
C2_SlugNeverChanges ==
    [][\A id \in ArticleIds :
          Kept(id) => articles'[id].slug = articles[id].slug]_vars

\* C2 as amended: a save never changes a slug that is not empty; only an
\* article stored with an empty slug gets one on a later save.
C2_NonEmptySlugNeverChanges ==
    [][\A id \in ArticleIds :
          (Kept(id) /\ articles[id].slug # <<>>)
              => articles'[id].slug = articles[id].slug]_vars

\* An article created with a blank title (slug "-1") was saved with a new
\* title and still has its slug.
C2_Witness ==
    \E id \in DOMAIN articles :
        /\ last.req.op \in {"autosave", "save", "editor"}
        /\ last.req.id = id
        /\ last.out \in {"saved", "redirect"}
        /\ articles[id].title = <<"A", "!">>
        /\ articles[id].slug = Dash(1)

\* C3: a first save without a slug stores the first of base, base-1,
\* base-2, ... (base = slugify(title)) that no stored article uses; with
\* base taken and base-1 free that is base-1, with both taken and base-2
\* free it is base-2.
Candidate(base, k) == IF k = 0 THEN base ELSE base \o Dash(k)

C3_FirstFreeCandidate ==
    [][(/\ nextId' = nextId + 1
        /\ last'.req.op \in {"create", "write"}
        /\ last'.req.slug = <<>>)
       => LET base == slugify(last'.req.title)
              used == UsedSlugs(articles)
              new  == articles'[nextId].slug
          IN  /\ \E k \in 0..Cardinality(used) :
                    /\ new = Candidate(base, k)
                    /\ new \notin used
                    /\ \A j \in 0..(k - 1) : Candidate(base, j) \in used
              /\ (base \in used /\ Candidate(base, 1) \notin used)
                     => new = Candidate(base, 1)
              /\ ({base, Candidate(base, 1)} \subseteq used
                      /\ Candidate(base, 2) \notin used)
                     => new = Candidate(base, 2)]_vars

\* Three articles created in a row with the same title hold a, a-1, a-2.
C3_Witness ==
    /\ DOMAIN articles = {1, 2, 3}
    /\ \A id \in {1, 2, 3} : articles[id].title = <<"A", "!">>
    /\ articles[1].slug = <<"a">>
    /\ articles[2].slug = <<"a">> \o Dash(1)
    /\ articles[3].slug = <<"a">> \o Dash(2)

\* The Article.save calls of the last step
Calls == {last.saves[i] : i \in 1..Len(last.saves)}
LastCall == last.saves[Len(last.saves)]
Due(call) ==
    /\ call.status = SCHEDULED
    /\ call.published_at # Null
    /\ TimeOf(call.published_at) <= call.at

\* C4: every save (direct, editor POST, autosave) of an article whose status
\* is Scheduled and whose published_at is set and at or before the time of
\* the save stores status Published.
C4_DueScheduledIsPublished ==
    /\ \A call \in Calls : (call.ok /\ Due(call)) => call.stored = PUBLISHED
    /\ (last.saves # <<>> /\ LastCall.ok /\ Due(LastCall))
           => articles[LastCall.id].status = PUBLISHED

\* A save of a Scheduled article whose published_at is exactly the time of
\* the save stored Published.
C4_Witness ==
    \E call \in Calls :
        /\ call.ok /\ Due(call)
        /\ TimeOf(call.published_at) = call.at
        /\ Stored(call.id) /\ articles[call.id].status = PUBLISHED

\* C5: is_published() is truthy exactly when status is Published and
\* published_at is set and published_at <= now (equal included); the call
\* changes nothing that is persisted.
C5_IsPublishedIff ==
    last.req.op = "is_published" =>
        LET a == articles[last.req.id]
        IN  Truthy(last.value) <=>
                (/\ a.status = PUBLISHED
                 /\ a.published_at # Null
                 /\ TimeOf(a.published_at) <= now)

C5_IsPublished ==
    /\ []C5_IsPublishedIff
    /\ [][last'.req.op = "is_published" =>
              /\ articles' = articles
              /\ images' = images
              /\ files' = files
              /\ now' = now]_vars

\* is_published() returned true for an article published exactly now.
C5_Witness ==
    /\ last.req.op = "is_published"
    /\ Truthy(last.value)
    /\ articles[last.req.id].published_at = At(now)
    /\ now > 0

\* C6: apart from Scheduled -> Published for a due article, a save stores
\* the status its caller passed.
C6_OnlyAutomaticTransition ==
    /\ \A call \in Calls : (call.ok /\ ~Due(call)) => call.stored = call.status
    /\ (last.saves # <<>> /\ LastCall.ok /\ ~Due(LastCall))
           => articles[LastCall.id].status = LastCall.status

\* A Scheduled article with a future published_at was saved and is still
\* Scheduled.
C6_Witness ==
    \E call \in Calls :
        /\ call.ok
        /\ call.status = SCHEDULED
        /\ call.published_at # Null
        /\ TimeOf(call.published_at) > call.at
        /\ Stored(call.id) /\ articles[call.id].status = SCHEDULED

ImagesOf(imgs, id) == {i \in DOMAIN imgs : imgs[i].article = id}
EditorDid(out) == last'.req.op = "editor" /\ last'.out = out
PersistedUnchanged ==
    /\ articles' = articles
    /\ images' = images
    /\ files' = files

\* C7: after a successful editor save of article X with image-id list K the
\* images of X are exactly those it had whose id is in K, each unchanged;
\* the list [1,2] is the set {1, 2}, and an empty or absent list leaves X
\* without images.
C7_KeepsExactlyListed ==
    [][EditorDid("redirect") =>
          LET X == last'.req.id
              K == last'.keep
              text == last'.req.image_ids
          IN  /\ ImagesOf(images', X) = {i \in ImagesOf(images, X) : i \in K}
              /\ \A i \in ImagesOf(images', X) : images'[i] = images[i]
              /\ text = <<"[", "1", ",", "2", "]">> => K = {1, 2}
              /\ text \in {<<>>, <<" ">>, <<"[", "]">>}
                     => ImagesOf(images', X) = {}]_vars

\* The article had images 1, 2, 3; a save with the list [1,2] left 1 and 2.
C7_Witness ==
    /\ last.req.op = "editor" /\ last.out = "redirect"
    /\ last.req.image_ids = <<"[", "1", ",", "2", "]">>
    /\ nextImageId = 4
    /\ DOMAIN images = {1, 2}
    /\ files = {1, 2}

\* C8: once an editor save has reconciled the images of an article with a
\* keep set, reconciling again with the same keep set deletes nothing:
\* image rows and backing files stay as they are.
C8_ReconcileIdempotent ==
    (last.req.op = "editor" /\ last.out = "redirect") =>
        Reconcile(images, files, last.req.id, last.keep)
            = [images |-> images, files |-> files]

\* A save with the list [2,3] removed image 1 of three.
C8_Witness ==
    /\ last.req.op = "editor" /\ last.out = "redirect"
    /\ last.keep = {2, 3}
    /\ nextImageId = 4
    /\ DOMAIN images = {2, 3}

\* C9 as stated: an editor POST whose image-id list cannot be parsed
\* changes neither the article row nor the images.
C9_MalformedIdsNoMutation ==
    [][EditorDid("json_error") => PersistedUnchanged]_vars

\* C10 as stated: an editor POST whose form fails validation is answered
\* with field-level errors and changes nothing that is persisted.
C10_InvalidFormFieldErrors ==
    [][(/\ last'.req.op = "editor"
        /\ last'.out # "404"
        /\ FieldErrors(last'.req, topics) # {})
       => (last'.out = "form_errors" /\ PersistedUnchanged)]_vars

\* C11 as stated: validating a submission ends in acceptance or in a
\* validation error on published_at and in nothing else; a new article
\* submitted as Published with a publish date before today is rejected; a
\* stored article submitted as Scheduled is rejected exactly when the new
\* publish date is earlier than the stored one.
C11_PublishDateValidation ==
    last.req.op = "validate" =>
        LET new == last.req.id = 0
            pub == InToTime(last.req.published_at)
            original == IF new THEN Null
                        ELSE articles[last.req.id].published_at
            rejected == last.out = "errors" /\ last.value = {"published_at"}
        IN  /\ last.out = "valid" \/ rejected
            /\ (/\ new
                /\ last.req.status = PUBLISHED
                /\ pub # Null
                /\ Date(TimeOf(pub)) < Date(now)) => rejected
            /\ (/\ ~new
                /\ last.req.status = SCHEDULED
                /\ pub # Null
                /\ original # Null)
                   => (rejected <=> Date(TimeOf(pub)) < Date(TimeOf(original)))

\* The editor of the views package (the one the URL configuration reaches)
\* answered the last request with the redirect of a successful save.
PackageEditorSaved == EditorDid("redirect") /\ last'.req.stamp

\* C12: after a successful editor POST that takes an article from Draft
\* with no published_at to status Published, the stored article has status
\* Published and its published_at is the time of that POST.
C12_PublishStampsNow ==
    [][(/\ PackageEditorSaved
        /\ articles[last'.req.id].status = DRAFT
        /\ articles[last'.req.id].published_at = Null
        /\ last'.req.status = PUBLISHED)
       => (/\ articles'[last'.req.id].status = PUBLISHED
           /\ articles'[last'.req.id].published_at = At(now))]_vars

\* A draft was published through /drafts/<id>/ with a later publish date
\* submitted; the stored published_at is the time of the POST.
C12_Witness ==
    /\ last.req.op = "editor" /\ last.out = "redirect" /\ last.req.stamp
    /\ last.req.route = "drafts"
    /\ last.req.status = PUBLISHED
    /\ last.req.published_at = DateIn(MaxTime)
    /\ now < MaxTime
    /\ articles[last.req.id].status = PUBLISHED
    /\ articles[last.req.id].published_at = At(now)

\* C13 as stated: a successful editor POST on an article whose published_at
\* is already set leaves published_at as it was.
C13_PublishedAtNotRestamped ==
    [][(/\ PackageEditorSaved
        /\ articles[last'.req.id].published_at # Null)
       => articles'[last'.req.id].published_at
              = articles[last'.req.id].published_at]_vars

\* C14 as stated: a successful editor POST that keeps a Draft without
\* published_at in status Draft leaves published_at null and the status
\* Draft.
C14_DraftStaysUnpublished ==
    [][(/\ PackageEditorSaved
        /\ articles[last'.req.id].status = DRAFT
        /\ articles[last'.req.id].published_at = Null
        /\ last'.req.status = DRAFT)
       => (/\ articles'[last'.req.id].status = DRAFT
           /\ articles'[last'.req.id].published_at = Null)]_vars

SameLetter(c, d) == c = d \/ {c, d} = {"A", "a"} \/ {c, d} = {"B", "b"}
ContainsIgnoringCase(title, q) ==
    \E i \in 1..(Len(title) - Len(q) + 1) :
        \A k \in 1..Len(q) : SameLetter(title[i + k - 1], q[k])

NonBlankSearch ==
    /\ last.req.op = "search"
    /\ last.req.body_ok
    /\ StripSpaces(last.req.q) # <<>>

\* The answer in last.value is the first 5 (or all, if fewer) of the
\* Published articles whose title contains q, in ascending title order,
\* each as title and slug only.
FirstFiveFor(q) ==
    LET r == last.value
        M == {id \in DOMAIN articles :
                 /\ articles[id].status = PUBLISHED
                 /\ ContainsIgnoringCase(articles[id].title, q)}
        returned == {id \in M : \E i \in 1..Len(r) :
                                   r[i].slug = articles[id].slug}
    IN  /\ last.out = "results"
        /\ Len(r) = (IF Cardinality(M) < 5 THEN Cardinality(M) ELSE 5)
        /\ \A i \in 1..Len(r) :
               /\ DOMAIN r[i] = {"title", "slug"}
               /\ \E id \in M : /\ r[i].slug = articles[id].slug
                                /\ r[i].title = articles[id].title
        /\ \A i, j \in 1..Len(r) :
               i < j => /\ r[i].slug # r[j].slug
                        /\ TitleLeq(r[i].title, r[j].title)
        /\ \A id \in M \ returned : \A i \in 1..Len(r) :
               TitleLeq(r[i].title, articles[id].title)

\* C15 as stated: for every non-blank query q the answer is the first 5 of
\* the Published articles whose title contains q itself.
C15_SearchFirstFive == NonBlankSearch => FirstFiveFor(last.req.q)

\* C15: for every non-blank query the answer is the first 5 (or fewer) of
\* the Published articles whose title contains the query, taken without its
\* leading and trailing whitespace, as a case-insensitive substring, in
\* ascending title order; no Draft or Scheduled article is returned and
\* each result carries title and slug only.
C15_SearchFirstFiveTrimmed ==
    NonBlankSearch => FirstFiveFor(StripSpaces(last.req.q))

\* Six Published articles match "A" (in either case), a Draft or a
\* Scheduled one matches too, and five results came back.
C15_Witness ==
    /\ last.req.op = "search" /\ last.req.q = <<"A">>
    /\ Len(last.value) = 5
    /\ Cardinality({id \in DOMAIN articles :
                       articles[id].status = PUBLISHED}) = 6
    /\ \E id \in DOMAIN articles : articles[id].status # PUBLISHED
    /\ \E i \in 1..5 : last.value[i].title = <<"a", " ", "b">>

\* C16: a search whose query is empty or only whitespace is answered with
\* an empty result list on the branch that returns before the article
\* query is built, whatever articles are stored.
C16_BlankQueryEmpty ==
    (/\ last.req.op = "search"
     /\ last.req.body_ok
     /\ \A i \in 1..Len(last.req.q) : last.req.q[i] = " ")
        => (last.out = "empty" /\ last.value = <<>>)

\* The query is one space and a Published article with a space in its
\* title is stored.
C16_Witness ==
    /\ last.req.op = "search" /\ last.req.q = <<" ">>
    /\ last.out = "empty"
    /\ \E id \in DOMAIN articles :
           /\ articles[id].status = PUBLISHED
           /\ articles[id].title = <<"a", " ", "b">>

\* C17: without an authenticated caller /articles/<slug> is answered with
\* the article exactly when an article with that slug is stored with status
\* Published, and with not-found otherwise; an authenticated caller gets
\* the stored article with that slug whatever its status.
C17_DetailVisibility ==
    last.req.op = "detail" =>
        LET match == {id \in DOMAIN articles :
                         articles[id].slug = last.req.slug}
        IN  /\ last.out \in {"200", "404"}
            /\ last.out = "200" => \E id \in match : last.value = articles[id]
            /\ ~last.req.auth =>
                   (last.out = "200"
                       <=> \E id \in match : articles[id].status = PUBLISHED)
            /\ (last.req.auth /\ match # {}) => last.out = "200"

\* A Draft is stored under the slug an anonymous caller asked for.
C17_Witness ==
    /\ last.req.op = "detail" /\ ~last.req.auth /\ last.out = "404"
    /\ \E id \in DOMAIN articles :
           /\ articles[id].slug = last.req.slug
           /\ articles[id].status = DRAFT

StateChanging ==
    {"editor", "delete", "write", "autosave", "upload", "topic_create"}

\* C18 as stated: a state-changing request (editor POST, article delete,
\* write, autosave, image upload, topic creation) from a caller who is not
\* authenticated leaves articles, images and topics as they are.
C18_AnonymousChangesNothing ==
    [][(last'.req.op \in StateChanging /\ ~last'.req.auth)
          => (PersistedUnchanged /\ topics' = topics)]_vars

AutosaveSaved == last'.req.op = "autosave" /\ last'.out = "saved"

\* What an autosave leaves alone whatever the stored article is: the other
\* articles, the images and their files, and published_at, topic and tags
\* of the article itself; title, content and excerpt are the submitted ones.
AutosaveFrame ==
    LET X == last'.req.id
    IN  /\ DOMAIN articles' = DOMAIN articles
        /\ \A id \in DOMAIN articles \ {X} : articles'[id] = articles[id]
        /\ images' = images
        /\ files' = files
        /\ articles'[X].title = last'.req.title
        /\ articles'[X].content = last'.req.content
        /\ articles'[X].excerpt = last'.req.excerpt
        /\ articles'[X].published_at = articles[X].published_at
        /\ articles'[X].topic = articles[X].topic
        /\ articles'[X].tags = articles[X].tags

\* C19 as stated: a successful autosave of X changes only title, content
\* and excerpt of X; slug, status, published_at, topic, tags and images of
\* X stay, and so does every other article.
C19_AutosaveOnlyText ==
    [][AutosaveSaved =>
          /\ AutosaveFrame
          /\ articles'[last'.req.id].slug = articles[last'.req.id].slug
          /\ articles'[last'.req.id].status = articles[last'.req.id].status]_vars

\* C19: a successful autosave of X changes only title, content and excerpt
\* of X, except that an empty stored slug is replaced by a generated one
\* and a Scheduled X whose published_at is at or before the time of the
\* autosave becomes Published; a slug that is not empty, published_at,
\* topic, tags and images stay, and so does every other article.
C19_AutosaveOnlyTextSlugStatus ==
    [][AutosaveSaved =>
          LET a == articles[last'.req.id]
              b == articles'[last'.req.id]
          IN  /\ AutosaveFrame
              /\ a.slug # <<>> => b.slug = a.slug
              /\ b.status # a.status =>
                     /\ a.status = SCHEDULED
                     /\ b.status = PUBLISHED
                     /\ a.published_at # Null
                     /\ TimeOf(a.published_at) <= now]_vars

\* A Scheduled article with an image was autosaved when due, next to an
\* article made by /write: it is Published under its old slug, with the
\* new title.
C19_Witness ==
    /\ last.req.op = "autosave" /\ last.out = "saved"
    /\ last.req.title = <<"A", "!">>
    /\ articles[last.req.id].title = <<"A", "!">>
    /\ articles[last.req.id].slug = <<"b">>
    /\ articles[last.req.id].status = PUBLISHED
    /\ last.saves[1].status = SCHEDULED
    /\ \E i \in DOMAIN images : images[i].article = last.req.id
    /\ \E id \in DOMAIN articles : id # last.req.id

\* C20: deleting a Topic deletes no article; every article that referred
\* to it has its topic reference set to null and is otherwise unchanged,
\* and the articles that refer to other topics are unchanged.
C20_TopicDeleteSetsNull ==
    [][last'.req.op = "topic_delete" =>
          /\ DOMAIN articles' = DOMAIN articles
          /\ \A id \in DOMAIN articles :
                 articles'[id] =
                     IF articles[id].topic = last'.req.topic
                     THEN [articles[id] EXCEPT !.topic = NoTopic]
                     ELSE articles[id]]_vars

\* A topic was deleted; an article that referred to it (every article is
\* created with a topic) has none now, another still refers to its topic,
\* and no article was ever deleted.
C20_Witness ==
    /\ last.req.op = "topic_delete" /\ last.req.topic \notin topics
    /\ \E id \in DOMAIN articles : articles[id].topic = NoTopic
    /\ \E id \in DOMAIN articles : articles[id].topic \in topics
    /\ DOMAIN articles = 1..(nextId - 1)

\* C21: after an article is deleted none of its ArticleImage rows and none
\* of their backing files remains; the deletion of a stored article by an
\* authenticated caller succeeds also when a backing file is already
\* missing; the images of the other articles stay; and in every state each
\* ArticleImage row refers to a stored article.
C21_DeleteCascadesImages ==
    [][/\ \A i \in DOMAIN images' : images'[i].article \in DOMAIN articles'
       /\ (last'.req.op = "delete" /\ last'.req.auth
               /\ last'.req.id \in DOMAIN articles)
              => /\ last'.out = "redirect"
                 /\ last'.req.id \notin DOMAIN articles'
                 /\ \A i \in DOMAIN images :
                        IF images[i].article = last'.req.id
                        THEN i \notin DOMAIN images' /\ i \notin files'
                        ELSE /\ i \in DOMAIN images'
                             /\ images'[i] = images[i]
                             /\ (i \in files' <=> i \in files)]_vars

\* Article 1 was deleted after three uploads; the image of article 2 and
\* its file are still there, the other two images are gone.
C21_Witness ==
    /\ last.req.op = "delete" /\ last.out = "redirect" /\ last.req.id = 1
    /\ nextImageId = 4
    /\ Cardinality(DOMAIN images) = 1
    /\ files = DOMAIN images
    /\ \A i \in DOMAIN images : images[i].article = 2

C23_ConcurrentFirstSaves ==
    [][/\ \A i, j \in DOMAIN articles' :
              i # j => articles'[i].slug # articles'[j].slug
       /\ \A p \in Procs :
              (pending[p].pc = "insert" /\ pending'[p] # pending[p])
                  => /\ pending'[p] = Idle
                     /\ IF pending[p].mem.slug \in UsedSlugs(articles)
                        THEN /\ last'.out = "integrity_error"
                             /\ articles' = articles
                        ELSE /\ last'.out = "created"
                             /\ articles' = DbWrite(articles, nextId,
                                                    pending[p].mem)]_vars

\* Both workers prepared the slug "a" for the title "A!"; one article is
\* stored under it, the other write was refused, and both workers are done.
C23_Witness ==
    /\ last.out = "integrity_error"
    /\ last.req.title = <<"A", "!">>
    /\ nextId = 2
    /\ articles[1].slug = <<"a">>
    /\ \A p \in Procs : pending[p] = Idle

\* C24: no step of the application (direct save, editor POST with its
\* reconciliation, autosave, creation or deletion of another article)
\* changes the slug of a stored article once that slug is not empty, and a
\* creation with a slug given by the caller stores that slug.
C24_SlugStableOnceSet ==
    [][/\ \A id \in DOMAIN articles \cap DOMAIN articles' :
              articles[id].slug # <<>> => articles'[id].slug = articles[id].slug
       /\ (last'.req.op = "create" /\ last'.out = "created"
               /\ last'.req.slug # <<>>)
              => articles'[last'.req.id].slug = last'.req.slug]_vars

\* The only article ever created was given the slug "a-1" by its caller;
\* an editor POST has since changed its title to "A!".
C24_Witness ==
    /\ nextId = 2
    /\ last.req.op = "editor" /\ last.out = "redirect" /\ last.req.id = 1
    /\ articles[1].slug = <<"a", "-", "1">>
    /\ articles[1].title = <<"A", "!">>

\* C25: an editor save of article X leaves every image of every other
\* article stored, with its article and its file, whatever image-id list
\* was submitted.
C25_OtherArticlesImagesKept ==
    [][last'.req.op = "editor"
           => \A i \in DOMAIN images :
                  images[i].article # last'.req.id
                      => /\ i \in DOMAIN images'
                         /\ images'[i] = images[i]
                         /\ (i \in files => i \in files')]_vars

\* An editor save of article 1 with the list [2,3] has deleted image 1 of
\* article 1; image 2, which belongs to article 2 and is in the list, and
\* image 3 of article 1 are stored.
C25_Witness ==
    /\ last.req.op = "editor" /\ last.out = "redirect" /\ last.req.id = 1
    /\ last.keep = {2, 3}
    /\ DOMAIN images = {2, 3}
    /\ images[2].article = 2 /\ images[3].article = 1
    /\ nextImageId = 4

\* The ids of a listing page as a set
Shown(listing) == {listing[k] : k \in DOMAIN listing}

\* C26: what index, the detail page, a topic page with its sidebar, and
\* search answer to an unauthenticated caller holds articles stored as
\* Published only.
C26_PublicReadsShowPublishedOnly ==
    /\ (last.req.op \in {"index", "topic"} /\ last.out = "200" /\ ~last.req.auth)
           => \A id \in Shown(last.value) \cup last.keep :
                  articles[id].status = PUBLISHED
    /\ (last.req.op = "detail" /\ last.out = "200" /\ ~last.req.auth)
           => last.value.status = PUBLISHED
    /\ (last.req.op = "search" /\ last.out = "results")
           => \A k \in DOMAIN last.value :
                  \E id \in DOMAIN articles :
                      /\ articles[id].slug = last.value[k].slug
                      /\ articles[id].status = PUBLISHED

\* C27: every article that index, the detail page or search answers to an
\* unauthenticated caller satisfies is_published() at the time of the
\* request: none is stored Published with a null or a future published_at.
C27_PublicReadsShowIsPublishedOnly ==
    /\ (last.req.op = "index" /\ last.out = "200" /\ ~last.req.auth)
           => \A id \in Shown(last.value) :
                  Truthy(is_published_value(articles[id], now))
    /\ (last.req.op = "detail" /\ last.out = "200" /\ ~last.req.auth)
           => Truthy(is_published_value(last.value, now))
    /\ (last.req.op = "search" /\ last.out = "results")
           => \A k \in DOMAIN last.value :
                  \E id \in DOMAIN articles :
                      /\ articles[id].slug = last.value[k].slug
                      /\ Truthy(is_published_value(articles[id], now))

\* C28: every stored article with status Published has a published_at.
C28_PublishedHasPublishedAt ==
    \A id \in DOMAIN articles :
        articles[id].status = PUBLISHED => articles[id].published_at # Null

\* C29: an autosave that runs at the same time as an editor save of the
\* same article leaves the stored status, topic and published_at of the
\* article as they were when it wrote.
C29_AutosaveKeepsStatusTopicPublishedAt ==
    [][(last'.req.op = "autosave" /\ last'.out = "saved")
           => LET id == last'.req.id
              IN  /\ articles'[id].status = articles[id].status
                  /\ articles'[id].topic = articles[id].topic
                  /\ articles'[id].published_at = articles[id].published_at]_vars

\* C30: the reconciliation of an editor save of X deletes no image of X
\* that was uploaded after the save's request, with its image-id list,
\* arrived.
C30_LateUploadSurvivesReconcile ==
    [][\A p \in Procs :
           (pending[p].pc = "editor_reconcile" /\ pending'[p].pc = "idle")
               => \A i \in DOMAIN images :
                      (/\ images[i].article = pending[p].req.id
                       /\ i >= pending[p].next_image)
                          => i \in DOMAIN images']_vars

====
